---- MODULE Spec2Model ----
(***************************************************************************)
(* Model of the pages of the analytics front end.                          *)
(*                                                                         *)
(* Gallery (fe/pages/comprehensive-dashboard.tsx): the dataset/chart       *)
(* selection, the three SWR responses it reads, and the chart option it    *)
(* derives from them.  The option of the generic query response is the     *)
(* client-side pivot: category axis, split key, zero-filled series.        *)
(*                                                                         *)
(* WorkingDashboard (unnamed/part_001) and ComprehensiveDashboard: the     *)
(* load effect, health check, overview, chart requests settled in          *)
(* parallel.  AdvancedChartsPage: the load effect that requests the charts *)
(* one after the other.  Home: the location filter and the keys of the     *)
(* five chart data requests.                                               *)
(*                                                                         *)
(* Each specification is one page; the variables of the other pages keep   *)
(* the values they have before the page is mounted.                        *)
(***************************************************************************)
EXTENDS Integers, Sequences, FiniteSets

VARIABLES
  \* Gallery
  dataset, chart, data, pareto, heat, option,
  \* WorkingDashboard / ComprehensiveDashboard
  dashboard, dashboardData, charts, loading, error, load,
  \* AdvancedChartsPage
  chartData, chartLoading, chartLoad,
  \* Home
  locationId, refs, homeData,
  \* the requests sent, the responses met and the state updates issued by
  \* the load effects, in order
  log

galleryVars == <<dataset, chart, data, pareto, heat, option>>

dashboardVars == <<dashboard, dashboardData, charts, loading, error, load>>

advancedVars == <<chartData, chartLoading, chartLoad>>

homeVars == <<locationId, refs, homeData>>

vars == <<galleryVars, dashboardVars, advancedVars, homeVars, log>>

-----------------------------------------------------------------------------
(* Bounds of the model.                                                     *)

\* largest number of grouped records (rows) in a generic query response
MaxRows == 2
\* largest number of items in a pareto or calendar response
MaxItems == 2

-----------------------------------------------------------------------------
(* JavaScript values.  Every value is a record of one shape so that values  *)
(* of different JavaScript types can be compared and put in one set.        *)

Undef == [k |-> "undefined", n |-> 0, s |-> ""]
Null == [k |-> "null", n |-> 0, s |-> ""]
Str(x) == [k |-> "string", n |-> 0, s |-> x]
Num(x) == [k |-> "number", n |-> x, s |-> ""]

\* a || b on values that are either undefined or a (truthy) array
OrElse(has, v, dflt) == IF has THEN v ELSE dflt

\* a ?? b
Coalesce(v, dflt) == IF v.k \in {"undefined", "null"} THEN dflt ELSE v

\* the decimal digits String() writes for the small numbers of the model
Digits(n) ==
  IF n = 0 THEN "0" ELSE IF n = 1 THEN "1" ELSE IF n = 2 THEN "2"
  ELSE IF n = 3 THEN "3" ELSE IF n = 4 THEN "4" ELSE "n"

\* String(v)
ToString(v) ==
  CASE v.k = "string" -> v.s
    [] v.k = "number" -> Digits(v.n)
    [] v.k = "null" -> "null"
    [] OTHER -> "undefined"

\* arr.indexOf(x): 0-based index of the first occurrence, -1 when absent
IndexOf(arr, x) ==
  IF \E i \in DOMAIN arr : arr[i] = x
  THEN (CHOOSE i \in DOMAIN arr : arr[i] = x /\ \A j \in 1..(i - 1) : arr[j] # x) - 1
  ELSE -1

\* arr[i] with a 0-based index: undefined outside the array
At(arr, i) == IF (i + 1) \in DOMAIN arr THEN arr[i + 1] ELSE Undef

\* Array.from(new Set(arr)): distinct values in order of first occurrence
RECURSIVE DedupFrom(_, _, _)
DedupFrom(arr, i, acc) ==
  IF i > Len(arr) THEN acc
  ELSE DedupFrom(arr, i + 1,
         IF \E j \in DOMAIN acc : acc[j] = arr[i] THEN acc ELSE Append(acc, arr[i]))

ArrayFromSet(arr) == DedupFrom(arr, 1, <<>>)

\* all sequences over S of length 0..n
SeqsUpTo(S, n) == UNION {[1..m -> S] : m \in 0..n}

-----------------------------------------------------------------------------
(* The responses the page can receive.  The backend is not part of the      *)
(* page: a response of POST /v1/analytics/query is any JSON of the shape    *)
(* {columns, rows, raw}, each field possibly absent.  A raw record carries  *)
(* the grouped identifier _id: an object of ordered key/value pairs (t,     *)
(* then the by fields), a scalar, or null when nothing was grouped.         *)

Datasets == {"timerlogs", "counts", "cycletimers", "timerdailystats"}
Charts == {"line", "stacked-line", "area", "stacked-area", "pareto", "calendar"}

\* time bucket values and split values of the model
Days == {Str("day1"), Str("day2")}
\* a by field of a record holds a value, null, or is missing from _id
ByValues == {Str("A"), Str("B"), Null, Undef}

\* shapes of a result: whether a time bucket was grouped, the by fields,
\* the metrics' output names and the kind of the grouped identifier
Shape(t, by, metrics, idKind) ==
  [t |-> t, by |-> by, metrics |-> metrics, idKind |-> idKind]

Shapes ==
  { Shape(TRUE, <<>>, <<"events">>, "object"),
    Shape(TRUE, <<>>, <<"count">>, "object"),
    Shape(TRUE, <<>>, <<"avg">>, "object"),
    Shape(TRUE, <<>>, <<"count", "tons">>, "object"),
    Shape(TRUE, <<>>, <<"avg", "max">>, "object"),
    Shape(TRUE, <<"timerId">>, <<"events">>, "object"),
    Shape(TRUE, <<"timerId", "machineId">>, <<"events">>, "object"),
    Shape(FALSE, <<"timerId">>, <<"count">>, "object"),
    Shape(FALSE, <<>>, <<"count">>, "string"),
    Shape(FALSE, <<>>, <<"count">>, "null") }

\* one grouped record of a shape: its time bucket and its by values
\* the by values of a record grouped by two fields: the first field is a
\* name, null or missing from _id, the second one of two names
PairValues == {<<a, b>> : a \in {Str("A"), Null, Undef}, b \in {Str("M1"), Str("M2")}}

\* the records of a result grouped by two fields are of one day
GroupsOf(sh) ==
  [t : IF ~sh.t THEN {Undef} ELSE IF Len(sh.by) = 2 THEN {Str("day1")} ELSE Days,
   by : IF Len(sh.by) = 2 THEN PairValues ELSE [1..Len(sh.by) -> ByValues]]

\* the value of metric j in record i: the records of a response hold
\* 2, 1, 3, 4, ... in their first metric, 10 more in each further metric,
\* so a plotted value tells the row and the column it was read from
MetricValue(i, j) == (IF i = 1 THEN 2 ELSE IF i = 2 THEN 1 ELSE i) + 10 * (j - 1)

ColumnsOf(sh) == (IF sh.t THEN <<"t">> ELSE <<>>) \o sh.by \o sh.metrics

RowOf(sh, g, i) ==
  (IF sh.t THEN <<g.t>> ELSE <<>>)
    \o [j \in 1..Len(sh.by) |-> Coalesce(g.by[j], Null)]
    \o [j \in 1..Len(sh.metrics) |-> Num(MetricValue(i, j))]

\* the keys and values of an object identifier: a missing by field has no key
RECURSIVE ByKeys(_, _, _)
ByKeys(sh, g, j) ==
  IF j > Len(sh.by) THEN <<>>
  ELSE (IF g.by[j] = Undef THEN <<>> ELSE <<sh.by[j]>>) \o ByKeys(sh, g, j + 1)

RECURSIVE ByVals(_, _, _)
ByVals(sh, g, j) ==
  IF j > Len(sh.by) THEN <<>>
  ELSE (IF g.by[j] = Undef THEN <<>> ELSE <<g.by[j]>>) \o ByVals(sh, g, j + 1)

\* the grouped identifier: kind is typeof-relevant ("object", "null",
\* "string", "undefined"); keys/vals are the own properties of an object
IdOf(sh, g) ==
  IF sh.idKind = "object"
  THEN [kind |-> "object",
        keys |-> (IF sh.t THEN <<"t">> ELSE <<>>) \o ByKeys(sh, g, 1),
        vals |-> (IF sh.t THEN <<g.t>> ELSE <<>>) \o ByVals(sh, g, 1)]
  ELSE [kind |-> sh.idKind, keys |-> <<>>, vals |-> <<>>]

\* which fields of the response body are present
Presence == {"all", "noColumns", "noRows", "noRaw"}

Response(sh, gs, p) ==
  [defined |-> TRUE,
   hasColumns |-> p # "noColumns",
   columns |-> IF p # "noColumns" THEN ColumnsOf(sh) ELSE <<>>,
   hasRows |-> p # "noRows",
   rows |-> IF p # "noRows" THEN [i \in DOMAIN gs |-> RowOf(sh, gs[i], i)] ELSE <<>>,
   hasRaw |-> p # "noRaw",
   raw |-> IF p # "noRaw" THEN [i \in DOMAIN gs |-> [id |-> IdOf(sh, gs[i])]] ELSE <<>>]

\* useSWR's data before the response arrived (or for a null key)
NoData ==
  [defined |-> FALSE, hasColumns |-> FALSE, columns |-> <<>>,
   hasRows |-> FALSE, rows |-> <<>>, hasRaw |-> FALSE, raw |-> <<>>]

\* a result grouped by two fields is taken complete only
PresenceOf(sh) == IF Len(sh.by) = 2 THEN {"all"} ELSE Presence

Responses ==
  UNION { { Response(sh, gs, p) : gs \in SeqsUpTo(GroupsOf(sh), MaxRows), p \in PresenceOf(sh) }
          : sh \in Shapes }

\* GET .../pareto/stop-reasons: {items: [{stopReason, count}]}, item i of a
\* response: the counts descend from the first item on
ParetoItem(i) ==
  [stopReason |-> Str(IF i % 2 = 1 THEN "jam" ELSE "idle"),
   count |-> Num(MaxItems + 1 - i)]

\* GET .../heatmap/daily-counts: {items: [{day, count}]}, item i of a
\* response: the last day of a year, then days of the next year
HeatItem(i) ==
  [day |-> Str(IF i = 1 THEN "2024-12-31" ELSE "2025-01-01"),
   count |-> Num(IF i = 1 THEN 1 ELSE 11)]

ItemsResponse(has, items) == [defined |-> TRUE, hasItems |-> has, items |-> items]

NoItems == [defined |-> FALSE, hasItems |-> FALSE, items |-> <<>>]

ParetoResponses ==
  {ItemsResponse(TRUE, [i \in 1..n |-> ParetoItem(i)]) : n \in 0..MaxItems}
    \cup {ItemsResponse(FALSE, <<>>)}

HeatResponses ==
  {ItemsResponse(TRUE, [i \in 1..n |-> HeatItem(i)]) : n \in 0..MaxItems}
    \cup {ItemsResponse(FALSE, <<>>)}

-----------------------------------------------------------------------------
(* Gallery.payload: the generic query of a (dataset, chart) selection.      *)

Query(collection, timeField, by, op, field, as, limit) ==
  [isNull |-> FALSE,
   collection |-> collection,
   filters |-> [timeField |-> timeField],
   group |-> [timeBucket |-> "day", timeField |-> timeField, by |-> by],
   metrics |-> <<[op |-> op, field |-> field, as |-> as]>>,
   limit |-> limit]

NullPayload ==
  [isNull |-> TRUE, collection |-> "", filters |-> [timeField |-> ""],
   group |-> [timeBucket |-> "", timeField |-> "", by |-> <<>>],
   metrics |-> <<>>, limit |-> 0]

\* payload whose stacked-line query buckets by another field than it filters
payload_MixedTimeField(ds, ch) ==
  IF ds = "timerlogs" /\ ch = "line"
  THEN Query("timerlogs", "createdAt", <<>>, "count", "_id", "events", 1000)
  ELSE IF ds = "counts" /\ ch = "stacked-line"
  THEN [Query("counts", "startAt", <<"timerId">>, "sum", "tons", "tons", 1000)
          EXCEPT !.group.timeField = "createdAt"]
  ELSE IF ds = "timerlogs" /\ ch = "pareto"
  THEN NullPayload
  ELSE Query(ds, "createdAt", <<>>, "count", "_id", "count", 365)

payload(ds, ch) ==
  IF ds = "timerlogs" /\ ch = "line"
  THEN Query("timerlogs", "createdAt", <<>>, "count", "_id", "events", 1000)
  ELSE IF ds = "counts" /\ ch = "stacked-line"
  THEN Query("counts", "startAt", <<"timerId">>, "sum", "tons", "tons", 1000)
  ELSE IF ds = "timerlogs" /\ ch = "pareto"
  THEN NullPayload
  ELSE Query(ds, "createdAt", <<>>, "count", "_id", "count", 365)

\* JSON.stringify(payload): the body of the POST /api/v1/analytics/query
body(p) ==
  [collection |-> p.collection, filters |-> p.filters, group |-> p.group,
   metrics |-> p.metrics, limit |-> p.limit]

\* useAnalytics: the key is null for a null payload and useSWR sends nothing
QuerySent(ds, ch) == ~payload(ds, ch).isNull

\* useSWR(chart === 'pareto' ? '.../pareto/stop-reasons' : null)
ParetoSent(ch) == ch = "pareto"

\* useSWR(chart === 'calendar' ? '.../heatmap/daily-counts' : null)
HeatSent(ch) == ch = "calendar"

-----------------------------------------------------------------------------
(* Gallery.option, the branch of the generic query response: the pivot.     *)

cols(d) == OrElse(d.hasColumns, d.columns, <<>>)

rows(d) == OrElse(d.hasRows, d.rows, <<>>)

tIndex(d) == IndexOf(cols(d), "t")

\* computed by the page and used nowhere
catCols(d) ==
  SelectSeq(cols(d), LAMBDA c : c \notin {"t", "count", "events", "tons", "duration"})

MetricPriority == <<"tons", "events", "count", "duration">>

\* metric that falls back to the first column instead of the last
metric_FirstColumn(d) ==
  LET present == SelectSeq(MetricPriority, LAMBDA m : IndexOf(cols(d), m) >= 0)
  IN  IF present # <<>> THEN Str(present[1])
      ELSE IF cols(d) # <<>> THEN Str(cols(d)[1])
      ELSE Undef

\* [...].find((m) => cols.includes(m)) || cols[cols.length - 1]
metric(d) ==
  LET present == SelectSeq(MetricPriority, LAMBDA m : IndexOf(cols(d), m) >= 0)
  IN  IF present # <<>> THEN Str(present[1])
      ELSE IF cols(d) # <<>> THEN Str(cols(d)[Len(cols(d))])
      ELSE Undef

\* cols.indexOf(metric)
mIndex(d) == IF metric(d).k = "string" THEN IndexOf(cols(d), metric(d).s) ELSE -1

\* categories that keep a value once per row
categories_NoDedup(d) ==
  [i \in DOMAIN rows(d) |->
     IF tIndex(d) >= 0 THEN At(rows(d)[i], tIndex(d)) ELSE Str("")]

categories(d) ==
  ArrayFromSet([i \in DOMAIN rows(d) |->
                  IF tIndex(d) >= 0 THEN At(rows(d)[i], tIndex(d)) ELSE Str("")])

\* typeof v for a grouped identifier
TypeOf(id) == IF id.kind = "null" THEN "object" ELSE id.kind

\* Object.keys(null) raises a TypeError
SeriesByThrows(d) ==
  d.hasRaw /\ Len(d.raw) > 0 /\ d.raw[1].id.kind = "null"

seriesBy(d) ==
  IF d.hasRaw /\ Len(d.raw) > 0 /\ TypeOf(d.raw[1].id) = "object"
  THEN LET ks == SelectSeq(d.raw[1].id.keys, LAMBDA k : k # "t")
       IN  IF ks # <<>> THEN Str(ks[1]) ELSE Undef
  ELSE Undef

\* id[key]: reading a property of null or undefined raises a TypeError,
\* a property an object or a string does not have is undefined
PropThrows(id) == id.kind \in {"null", "undefined"}

Prop(id, key) ==
  IF id.kind = "object" /\ IndexOf(id.keys, key) >= 0
  THEN id.vals[IndexOf(id.keys, key) + 1]
  ELSE Undef

GroupsThrows(d) ==
  /\ seriesBy(d) # Undef
  /\ \E i \in DOMAIN d.raw : PropThrows(d.raw[i].id)

groups(d) ==
  IF seriesBy(d) # Undef
  THEN ArrayFromSet([i \in DOMAIN d.raw |->
                       Coalesce(Prop(d.raw[i].id, seriesBy(d).s), Str("Unknown"))])
  ELSE <<Str("Series")>>

\* the left conjunct of the find predicate, for the row at (1-based) i
CategoryMatches(d, c, i) == IF tIndex(d) >= 0 THEN At(rows(d)[i], tIndex(d)) = c ELSE TRUE

\* evaluating the predicate of rows.find at row i raises: data.raw[idx] is
\* undefined, or its _id is null or undefined
MatchThrows(d, c, i) ==
  /\ CategoryMatches(d, c, i)
  /\ seriesBy(d) # Undef
  /\ \/ i \notin DOMAIN d.raw
     \/ PropThrows(d.raw[i].id)

Matches(d, g, c, i) ==
  /\ CategoryMatches(d, c, i)
  /\ \/ seriesBy(d) = Undef
     \/ /\ i \in DOMAIN d.raw
        /\ ~PropThrows(d.raw[i].id)
        /\ Prop(d.raw[i].id, seriesBy(d).s) = g

\* rows.find(...) scanning from row i: the (1-based) index of the first
\* matching row, 0 if none, -1 if the predicate raises before a match
RECURSIVE FindFrom(_, _, _, _)
FindFrom(d, g, c, i) ==
  IF i > Len(rows(d)) THEN 0
  ELSE IF MatchThrows(d, c, i) THEN -1
  ELSE IF Matches(d, g, c, i) THEN i
  ELSE FindFrom(d, g, c, i + 1)

found(d, g, c) == FindFrom(d, g, c, 1)

FindThrows(d, g, c) == found(d, g, c) < 0

\* point read from the first row of the category, whatever its split value
Point_AnySplit(d, g, c) ==
  LET fs == SelectSeq([i \in DOMAIN rows(d) |-> i], LAMBDA i : CategoryMatches(d, c, i))
  IN  IF fs # <<>> THEN At(rows(d)[fs[1]], mIndex(d)) ELSE Num(0)

\* found ? found[mIndex] : 0
Point(d, g, c) ==
  LET f == found(d, g, c)
  IN  IF f > 0 THEN At(rows(d)[f], mIndex(d)) ELSE Num(0)

IncludesArea(ch) == ch \in {"area", "stacked-area"}

IncludesStacked(ch) == ch \in {"stacked-line", "stacked-area"}

\* series that omit the (category, split) cells no row fills
series_OmitMissing(d, ch) ==
  LET gs == groups(d)
      cs == categories(d)
  IN  [gi \in DOMAIN gs |->
         [type |-> "line",
          name |-> ToString(gs[gi]),
          areaStyle |-> IncludesArea(ch),
          stack |-> IncludesStacked(ch),
          showSymbol |-> FALSE,
          data |-> LET kept == SelectSeq([ci \in DOMAIN cs |-> ci],
                                         LAMBDA ci : found(d, gs[gi], cs[ci]) > 0)
                   IN  [k \in DOMAIN kept |-> Point(d, gs[gi], cs[kept[k]])]]]

series(d, ch) ==
  LET gs == groups(d)
      cs == categories(d)
  IN  [gi \in DOMAIN gs |->
         [type |-> "line",
          name |-> ToString(gs[gi]),
          areaStyle |-> IncludesArea(ch),
          stack |-> IncludesStacked(ch),
          showSymbol |-> FALSE,
          data |-> [ci \in DOMAIN cs |-> Point(d, gs[gi], cs[ci])]]]

\* the pivot raises instead of returning an option; once groups was built
\* every identifier of raw can be read, so that rows.find raises only on a
\* row beyond the end of raw
PivotThrows(d) ==
  \/ SeriesByThrows(d)
  \/ GroupsThrows(d)
  \/ /\ seriesBy(d) # Undef
     /\ Len(rows(d)) > Len(d.raw)
     /\ LET gs == groups(d)
            cs == categories(d)
        IN  \E gi \in DOMAIN gs, ci \in DOMAIN cs : FindThrows(d, gs[gi], cs[ci])

PivotOption(ds, ch, d) ==
  IF PivotThrows(d)
  THEN [kind |-> "error"]
  ELSE [kind |-> "chart",
        title |-> <<ds, ch>>,
        xAxis |-> categories(d),
        series |-> series(d, ch)]

-----------------------------------------------------------------------------
(* Gallery.option, the branches of the two specialized views.               *)

items(r) == OrElse(r.hasItems, r.items, <<>>)

\* the pareto option with its items plotted in reverse order
ParetoOption_Reversed(r) ==
  LET n == Len(items(r))
  IN  [kind |-> "pareto",
       title |-> "Pareto Stop Reasons",
       yAxis |-> [i \in DOMAIN items(r) |-> items(r)[n + 1 - i].stopReason],
       series |-> <<[type |-> "bar",
                     data |-> [i \in DOMAIN items(r) |-> items(r)[n + 1 - i].count]]>>]

ParetoOption(r) ==
  [kind |-> "pareto",
   title |-> "Pareto Stop Reasons",
   yAxis |-> [i \in DOMAIN items(r) |-> items(r)[i].stopReason],
   series |-> <<[type |-> "bar",
                 data |-> [i \in DOMAIN items(r) |-> items(r)[i].count]]>>]

\* Math.max(...counts, 10)
MaxOf(S) == CHOOSE m \in S : \A x \in S : x <= m

VisualMapMax(r) == MaxOf({items(r)[i].count.n : i \in DOMAIN items(r)} \cup {10})

\* day.substring(0, 4) for the days of the model
Substring04(day) ==
  IF day = "2024-12-31" THEN "2024" ELSE IF day = "2025-01-01" THEN "2025" ELSE ""

CalendarOption(r) ==
  [kind |-> "calendar",
   title |-> "Events per Day (Timerlogs)",
   visualMapMax |-> VisualMapMax(r),
   range |-> IF Len(items(r)) > 0 THEN Substring04(items(r)[1].day.s) ELSE "2024",
   series |-> <<[type |-> "heatmap",
                 data |-> [i \in DOMAIN items(r) |->
                             <<items(r)[i].day, items(r)[i].count>>]]>>]

LoadingOption == [kind |-> "loading"]

\* option that keeps the placeholder while the response has no rows
BuildOption_LoadingWhenEmpty(ds, ch, d, p, h) ==
  IF ch = "pareto" /\ p.defined THEN ParetoOption(p)
  ELSE IF ch = "calendar" /\ h.defined THEN CalendarOption(h)
  ELSE IF ~d.defined \/ rows(d) = <<>> THEN LoadingOption
  ELSE PivotOption(ds, ch, d)

\* the useMemo that derives the chart option from the three responses
BuildOption(ds, ch, d, p, h) ==
  IF ch = "pareto" /\ p.defined THEN ParetoOption(p)
  ELSE IF ch = "calendar" /\ h.defined THEN CalendarOption(h)
  ELSE IF ~d.defined THEN LoadingOption
  ELSE PivotOption(ds, ch, d)

-----------------------------------------------------------------------------
(* The state of the other pages before they are mounted: the initial        *)
(* values of their useState hooks, no load effect started.                  *)

\* a response body: the endpoint it answers and the load that asked
ResponseBody(endpoint, l) == [endpoint |-> endpoint, load |-> l]

\* null where a response body is expected
NullBody == [endpoint |-> "null", load |-> 0]

\* the load effects of one component: React strict mode runs the effect of
\* a mounted component a second time
Loads == {1, 2}

IdleLoad == [pc |-> "idle", healthCheck |-> "none"]

DashboardState ==
  /\ dashboardData = NullBody
  /\ charts = {}
  /\ loading = TRUE
  /\ error = Null
  /\ load = [l \in Loads |-> IdleLoad]

DashboardUnmounted == dashboard = "none" /\ DashboardState

AdvancedState ==
  /\ chartData = {}
  /\ chartLoading = {}

AdvancedUnmounted == AdvancedState /\ chartLoad = [pc |-> "unmounted", index |-> 0]

\* useSWR's data of a key without a response
NoResponse == [defined |-> FALSE, path |-> "", params |-> [has |-> FALSE, location_id |-> ""]]

\* the paths of the five chart data requests of Home, in declared order
HomePaths ==
  << "/v1/production/summary",
     "/v1/downtime/reasons",
     "/v1/cycle-times",
     "/v1/utilization/daily",
     "/v1/production/runrate-timeseries" >>

HomeRequests == DOMAIN HomePaths

NoRefs == [defined |-> FALSE, locations |-> <<>>]

HomeState ==
  /\ locationId = ""
  /\ refs = NoRefs
  /\ homeData = [i \in HomeRequests |-> NoResponse]

HomeUnmounted == HomeState

-----------------------------------------------------------------------------
(* The page as a state machine.  useSWR holds no data for a null key.  A    *)
(* key that becomes current shows at once the response SWR kept for it when *)
(* the key was met before, and no data otherwise; the cache is not part of  *)
(* the state, what it holds for the key is an input of the step.  A key     *)
(* that has data is asked again when SWR revalidates it, and the response   *)
(* replaces the data.  A render whose option raises unmounts the page.      *)

\* the first render of the Gallery
GalleryState ==
  /\ dataset = "timerlogs"
  /\ chart = "line"
  /\ data = NoData
  /\ pareto = NoItems
  /\ heat = NoItems
  /\ option = LoadingOption

Init ==
  /\ GalleryState
  /\ DashboardUnmounted
  /\ AdvancedUnmounted
  /\ HomeUnmounted
  /\ log = <<>>

Mounted == option.kind # "error"

\* what useSWR can return for the generic query under a selection
DataUnder(ds, ch) == IF QuerySent(ds, ch) THEN {NoData} \cup Responses ELSE {NoData}

\* what useSWR can return for the pareto view under a chart
ParetoUnder(ch) == IF ParetoSent(ch) THEN {NoItems} \cup ParetoResponses ELSE {NoItems}

\* what useSWR can return for the calendar view under a chart
HeatUnder(ch) == IF HeatSent(ch) THEN {NoItems} \cup HeatResponses ELSE {NoItems}

\* the state after the selection became (ds, ch): a key that stays keeps
\* its data, a key that changes shows what SWR holds for it
Select(ds, ch) ==
  /\ dataset' = ds
  /\ chart' = ch
  /\ data' \in IF payload(ds, ch) = payload(dataset, chart) THEN {data} ELSE DataUnder(ds, ch)
  /\ pareto' \in IF ParetoSent(ch) = ParetoSent(chart) THEN {pareto} ELSE ParetoUnder(ch)
  /\ heat' \in IF HeatSent(ch) = HeatSent(chart) THEN {heat} ELSE HeatUnder(ch)
  /\ option' = BuildOption(ds, ch, data', pareto', heat')
  /\ UNCHANGED <<dashboardVars, advancedVars, homeVars, log>>

SetDataset ==
  /\ Mounted
  /\ \E ds \in Datasets \ {dataset} : Select(ds, chart)

SetChart ==
  /\ Mounted
  /\ \E ch \in Charts \ {chart} : Select(dataset, ch)

\* a response of the generic query arrives
ReceiveData ==
  /\ Mounted
  /\ QuerySent(dataset, chart)
  /\ \E r \in Responses :
       /\ data' = r
       /\ option' = BuildOption(dataset, chart, r, pareto, heat)
  /\ UNCHANGED <<dataset, chart, pareto, heat, dashboardVars, advancedVars, homeVars, log>>

\* a response of the pareto view arrives
ReceivePareto ==
  /\ Mounted
  /\ ParetoSent(chart)
  /\ \E r \in ParetoResponses :
       /\ pareto' = r
       /\ option' = BuildOption(dataset, chart, data, r, heat)
  /\ UNCHANGED <<dataset, chart, data, heat, dashboardVars, advancedVars, homeVars, log>>

\* a response of the calendar view arrives
ReceiveHeat ==
  /\ Mounted
  /\ HeatSent(chart)
  /\ \E r \in HeatResponses :
       /\ heat' = r
       /\ option' = BuildOption(dataset, chart, data, pareto, r)
  /\ UNCHANGED <<dataset, chart, data, pareto, dashboardVars, advancedVars, homeVars, log>>

Next == SetDataset \/ SetChart \/ ReceiveData \/ ReceivePareto \/ ReceiveHeat

Spec == Init /\ [][Next]_vars

-----------------------------------------------------------------------------
(* The option as a function of what the page holds.  A session reaches      *)
(* every selection with every response useSWR can return under it (select,  *)
(* then receive), in as many steps as there are responses: the properties   *)
(* of a render are checked on the page drawn in each of these states, and   *)
(* rendered again under the chart types that ask the same requests.         *)

\* the page rendered on a selection and on responses useSWR returns under it
RenderInit ==
  /\ dataset \in Datasets
  /\ chart \in Charts
  /\ data \in DataUnder(dataset, chart)
  /\ pareto \in ParetoUnder(chart)
  /\ heat \in HeatUnder(chart)
  /\ option = BuildOption(dataset, chart, data, pareto, heat)
  /\ DashboardUnmounted
  /\ AdvancedUnmounted
  /\ HomeUnmounted
  /\ log = <<>>

\* a render on the same responses: useMemo(() => ..., [data, pareto, heat,
\* chart, dataset]) under a chart type whose three keys are the current ones
Render ==
  /\ Mounted
  /\ \E ch \in Charts :
       /\ payload(dataset, ch) = payload(dataset, chart)
       /\ ParetoSent(ch) = ParetoSent(chart)
       /\ HeatSent(ch) = HeatSent(chart)
       /\ Select(dataset, ch)

RenderNext == Render

RenderSpec == RenderInit /\ [][RenderNext]_vars

-----------------------------------------------------------------------------
(* Vocabulary of the properties: what a tabular result says, stated from    *)
(* the result itself and not through the page's own intermediate values.    *)

\* a tabular result: all three fields, rows aligned to columns and to raw
WellFormed(d) ==
  /\ d.defined /\ d.hasColumns /\ d.hasRows /\ d.hasRaw
  /\ Len(d.rows) = Len(d.raw)
  /\ \A i \in DOMAIN d.rows : Len(d.rows[i]) = Len(d.columns)

\* the page shows the pivot of the generic query response
PivotShown == option.kind = "chart"

\* the generic response is the one the option is built from
PivotBranch ==
  /\ data.defined
  /\ ~(chart = "pareto" /\ pareto.defined)
  /\ ~(chart = "calendar" /\ heat.defined)

HasColumn(d, name) == \E j \in DOMAIN d.columns : d.columns[j] = name

ColumnPos(d, name) == CHOOSE j \in DOMAIN d.columns : d.columns[j] = name

\* the category of row i: its time bucket, or the one blank category of a
\* result without a time column
RowCategory(d, i) ==
  IF HasColumn(d, "t") THEN d.rows[i][ColumnPos(d, "t")] ELSE Str("")

\* C1: for a tabular result with index-aligned rows and raw, every series of
\* the pivot has exactly one point per category of the axis, and point k is 0
\* or a value read from a row of category k: all series share the axis.
C1_SeriesShareAxis ==
  (PivotShown /\ WellFormed(data)) =>
    \A si \in DOMAIN option.series :
      /\ Len(option.series[si].data) = Len(option.xAxis)
      /\ \A k \in DOMAIN option.series[si].data :
           \/ option.series[si].data[k] = Num(0)
           \/ \E i \in DOMAIN data.rows :
                /\ RowCategory(data, i) = option.xAxis[k]
                /\ \E j \in DOMAIN data.rows[i] :
                     data.rows[i][j] = option.series[si].data[k]

\* two series over two categories, each with a value and a zero-filled gap
C1_Witness ==
  /\ PivotShown /\ WellFormed(data)
  /\ Len(option.xAxis) = 2
  /\ Len(option.series) = 2
  /\ \A si \in DOMAIN option.series :
       /\ \E k \in DOMAIN option.series[si].data : option.series[si].data[k] = Num(0)
       /\ \E k \in DOMAIN option.series[si].data : option.series[si].data[k] # Num(0)

\* the metric output names a result can carry: the columns after t and the
\* by fields
MetricNames == UNION {{sh.metrics[j] : j \in DOMAIN sh.metrics} : sh \in Shapes}

\* the by columns of a result: those that are neither t nor a metric
ByColumns(d) == SelectSeq(d.columns, LAMBDA c : c # "t" /\ c \notin MetricNames)

\* the metric columns of a result, in declared order
MetricColumns(d) == SelectSeq(d.columns, LAMBDA c : c \in MetricNames)

\* the metric the pivot is to plot: the first name of the priority list
\* among the columns, else the last declared metric column
ExpectedMetric(d) ==
  IF \E m \in {"tons", "events", "count", "duration"} : HasColumn(d, m)
  THEN IF HasColumn(d, "tons") THEN "tons"
       ELSE IF HasColumn(d, "events") THEN "events"
       ELSE IF HasColumn(d, "count") THEN "count"
       ELSE "duration"
  ELSE MetricColumns(d)[Len(MetricColumns(d))]

\* the value the identifier of record i holds for a by field: null when the
\* field is null or missing
SplitOf(d, i, field) ==
  IF \E j \in DOMAIN d.raw[i].id.keys : d.raw[i].id.keys[j] = field
  THEN d.raw[i].id.vals[CHOOSE j \in DOMAIN d.raw[i].id.keys : d.raw[i].id.keys[j] = field]
  ELSE Null

\* every identifier is an object that carries t (when grouped by time) and
\* every by column: the composite key of each row can be rebuilt from it
KeysComplete(d) ==
  \A i \in DOMAIN d.raw :
    /\ d.raw[i].id.kind = "object"
    /\ \A c \in {d.columns[j] : j \in DOMAIN d.columns} \ MetricNames :
         \E j \in DOMAIN d.raw[i].id.keys : d.raw[i].id.keys[j] = c

\* the name of the series of a split value
SplitName(g) == IF g = Null THEN "Unknown" ELSE ToString(g)

\* the rows of category c whose identifier has split value g
CellRows(d, c, g) ==
  {i \in DOMAIN d.rows :
     /\ RowCategory(d, i) = c
     /\ ByColumns(d) # <<>> => SplitOf(d, i, ByColumns(d)[1]) = g}

\* the series named n holds at category k the plotted metric of a row of
\* cell (category k, g), and 0 when the cell has no row
CellFilled(d, n, k, g) ==
  \E si \in DOMAIN option.series :
    /\ option.series[si].name = n
    /\ k \in DOMAIN option.series[si].data
    /\ IF CellRows(d, option.xAxis[k], g) = {}
       THEN option.series[si].data[k] = Num(0)
       ELSE \E i \in CellRows(d, option.xAxis[k], g) :
              option.series[si].data[k] = d.rows[i][ColumnPos(d, ExpectedMetric(d))]

\* C2: for each split value g and each category c of the axis, the point of
\* the series of g at c is the plotted metric of the row whose t is c and
\* whose identifier has split value g, and 0 when there is no such row; no
\* (category, split) cell is left out.
C2_ZeroFill ==
  (PivotShown /\ WellFormed(data) /\ KeysComplete(data) /\ HasColumn(data, "t")) =>
    \A k \in DOMAIN option.xAxis :
      IF ByColumns(data) = <<>>
      THEN CellFilled(data, "Series", k, Null)
      ELSE \A i \in DOMAIN data.raw :
             LET g == SplitOf(data, i, ByColumns(data)[1])
             IN  CellFilled(data, SplitName(g), k, g)

\* C3: with a column t, the category axis is the sequence of the distinct t
\* values of all rows in order of first occurrence: every row's t is on the
\* axis, every axis entry is the t of a row, none appears twice.
C3_CategoryAxis ==
  (PivotShown /\ data.hasColumns /\ HasColumn(data, "t")) =>
    LET rs == IF data.hasRows THEN data.rows ELSE <<>>
        tp == ColumnPos(data, "t")
        First(c) == CHOOSE i \in DOMAIN rs :
                      rs[i][tp] = c /\ \A j \in 1..(i - 1) : rs[j][tp] # c
    IN  /\ \A i \in DOMAIN rs : \E k \in DOMAIN option.xAxis : option.xAxis[k] = rs[i][tp]
        /\ \A k \in DOMAIN option.xAxis : \E i \in DOMAIN rs : rs[i][tp] = option.xAxis[k]
        /\ \A k1, k2 \in DOMAIN option.xAxis :
             k1 < k2 => /\ option.xAxis[k1] # option.xAxis[k2]
                        /\ First(option.xAxis[k1]) < First(option.xAxis[k2])

\* rows day2, day1 of two split values: the axis is day2, day1, in the order
\* the rows first name them
C3_Witness ==
  /\ PivotShown /\ WellFormed(data) /\ HasColumn(data, "t")
  /\ Len(data.rows) = 2
  /\ data.rows[1][1] = Str("day2") /\ data.rows[2][1] = Str("day1")
  /\ ByColumns(data) # <<>>
  /\ option.xAxis = <<Str("day2"), Str("day1")>>

\* rows of one day repeated: the axis names the day once
C3_WitnessDup ==
  /\ PivotShown /\ WellFormed(data) /\ HasColumn(data, "t")
  /\ Len(data.rows) = 2
  /\ data.rows[1][1] = data.rows[2][1]
  /\ Len(option.xAxis) = 1

\* C4: without a column t, the category axis is the distinct,
\* order-preserving sequence of the values of the first non-metric column
\* (and each point is looked up by that column's value).
C4_FirstNonMetricAxis ==
  (/\ PivotShown /\ WellFormed(data) /\ KeysComplete(data)
   /\ ~HasColumn(data, "t") /\ ByColumns(data) # <<>>) =>
    option.xAxis =
      ArrayFromSet([i \in DOMAIN data.rows |->
                      data.rows[i][ColumnPos(data, ByColumns(data)[1])]])

\* the names of the series of the option, in order
SeriesNames == [si \in DOMAIN option.series |-> option.series[si].name]

\* C5: building the option of a tabular result gives, with a by field,
\* exactly one series per distinct value of the field, in order of first
\* occurrence in raw, named by the value's string form; without a by field,
\* exactly one series, named 'Series'.
C5_OneSeriesPerValue ==
  (PivotBranch /\ WellFormed(data)) =>
    /\ PivotShown
    /\ SeriesNames =
         IF ByColumns(data) # <<>>
         THEN LET vs == ArrayFromSet([i \in DOMAIN data.raw |->
                                        SplitOf(data, i, ByColumns(data)[1])])
              IN  [k \in DOMAIN vs |-> ToString(vs[k])]
         ELSE <<"Series">>

\* C6: the plotted metric is the first name of the priority list tons,
\* events, count, duration that is among the columns, and the last declared
\* metric column when none is; every plotted value is read from that column.
C6_MetricSelection ==
  (PivotBranch /\ WellFormed(data)) =>
    /\ metric(data) = Str(ExpectedMetric(data))
    /\ PivotShown =>
         \A si \in DOMAIN option.series : \A k \in DOMAIN option.series[si].data :
           \/ option.series[si].data[k] = Num(0)
           \/ \E i \in DOMAIN data.rows :
                option.series[si].data[k] =
                  data.rows[i][ColumnPos(data, ExpectedMetric(data))]

\* columns t, count, tons: tons is plotted although count comes first
C6_Witness ==
  /\ PivotShown /\ WellFormed(data)
  /\ data.columns = <<"t", "count", "tons">>
  /\ Len(data.rows) = 1
  /\ option.series[1].data = <<data.rows[1][3]>>

\* C7: building the option of a generic query response never raises,
\* whatever is missing from the response.
C7_NeverFails == PivotBranch => option.kind # "error"

\* C8: when the metric to plot names no column of the result, the pivot
\* fails with an error instead of producing series.
C8_MetricPrecondition ==
  (PivotBranch /\ (~data.hasColumns \/ data.columns = <<>>)) => option.kind = "error"

\* a response with columns, zero rows and an empty raw
EmptyResult(d) ==
  /\ d.defined /\ d.hasColumns /\ d.columns # <<>>
  /\ d.hasRows /\ d.rows = <<>>
  /\ d.hasRaw /\ d.raw = <<>>

\* C9: an empty result yields a chart option with an empty category axis and
\* exactly one series, named 'Series', without points: no error and no
\* 'Loading...' placeholder.
C9_EmptyResult ==
  (PivotBranch /\ EmptyResult(data)) =>
    /\ option.kind = "chart"
    /\ option.xAxis = <<>>
    /\ Len(option.series) = 1
    /\ option.series[1].name = "Series"
    /\ option.series[1].data = <<>>

\* the empty result of a query split by timerId is shown
C9_Witness ==
  /\ PivotBranch /\ EmptyResult(data)
  /\ data.columns = <<"t", "timerId", "events">>
  /\ option.kind = "chart"

\* the response of the worked example
ExampleResult ==
  [defined |-> TRUE,
   hasColumns |-> TRUE,
   columns |-> <<"t", "timerId", "events">>,
   hasRows |-> TRUE,
   rows |-> << <<Str("day1"), Str("A"), Num(2)>>, <<Str("day2"), Str("B"), Num(1)>> >>,
   hasRaw |-> TRUE,
   raw |-> << [id |-> [kind |-> "object", keys |-> <<"t", "timerId">>,
                       vals |-> <<Str("day1"), Str("A")>>]],
              [id |-> [kind |-> "object", keys |-> <<"t", "timerId">>,
                       vals |-> <<Str("day2"), Str("B")>>]] >>]

\* C10: timer A with 2 events on day 1 and timer B with 1 event on day 2
\* pivot to the axis day1, day2 and the two series A = 2, 0 and B = 0, 1.
C10_WorkedExample ==
  (PivotBranch /\ data = ExampleResult) =>
    /\ option.kind = "chart"
    /\ option.xAxis = <<Str("day1"), Str("day2")>>
    /\ Len(option.series) = 2
    /\ option.series[1].name = "A"
    /\ option.series[1].data = <<Num(2), Num(0)>>
    /\ option.series[2].name = "B"
    /\ option.series[2].data = <<Num(0), Num(1)>>

\* the worked example's response has arrived and is charted
C10_Witness ==
  /\ PivotBranch /\ data = ExampleResult
  /\ option.kind = "chart"
  /\ Len(option.series) = 2

-----------------------------------------------------------------------------
(* The requests of a selection.                                             *)

QueryFields == {"collection", "filters", "group", "metrics", "limit"}

\* C12: every generic query the gallery sends has a body with exactly the
\* fields collection, filters, group, metrics and limit, a collection that is
\* one of the four datasets, the same time field in group and filters, at
\* least one metric and a positive limit; for a null payload no generic
\* query is sent, so no response to one is ever held.
C12_QueryBody ==
  /\ QuerySent(dataset, chart) =>
       LET b == body(payload(dataset, chart))
       IN  /\ DOMAIN b = QueryFields
           /\ b.collection \in Datasets
           /\ Cardinality(Datasets) = 4
           /\ b.group.timeField = b.filters.timeField
           /\ Len(b.metrics) > 0
           /\ b.limit > 0
  /\ payload(dataset, chart).isNull => ~QuerySent(dataset, chart) /\ ~data.defined

\* the response of a split query of another dataset than the initial one
C12_Witness ==
  /\ dataset = "counts"
  /\ chart = "stacked-line"
  /\ QuerySent(dataset, chart)
  /\ data.defined
  /\ Len(data.rows) > 0

\* C13: for every selection the gallery issues exactly one kind of request:
\* the generic query, or for the pareto and calendar charts the specialized
\* view; never both and never neither.
C13_ExactlyOneRequest ==
  LET special == ParetoSent(chart) \/ HeatSent(chart)
  IN  /\ QuerySent(dataset, chart) \/ special
      /\ ~(QuerySent(dataset, chart) /\ special)
      /\ special <=> chart \in {"pareto", "calendar"}

-----------------------------------------------------------------------------
(* The split dimension.                                                     *)

\* the keys other than t of the first identifier of a result
FirstKeys(d) == SelectSeq(d.raw[1].id.keys, LAMBDA k : k # "t")

\* the rows of category c whose identifier holds for field f a value of the
\* series named n
NamedCell(d, c, f, n) ==
  {i \in DOMAIN d.rows : RowCategory(d, i) = c /\ SplitName(SplitOf(d, i, f)) = n}

Least(S) == CHOOSE i \in S : \A j \in S : i <= j

\* the series are those of the values of the first key other than t of the
\* first identifier, and each cell holds the plotted metric of its first row
\* in row order when the identifier carries two or more by keys, 0 when it
\* has no row; the cells of 'Unknown' are left out when exceptUnknown holds
FirstKeySplits(exceptUnknown) ==
  (PivotShown /\ WellFormed(data) /\ data.raw # <<>> /\ data.raw[1].id.kind = "object") =>
    IF FirstKeys(data) = <<>>
    THEN SeriesNames = <<"Series">>
    ELSE LET f == FirstKeys(data)[1]
         IN  /\ {SeriesNames[si] : si \in DOMAIN SeriesNames}
                  = {SplitName(SplitOf(data, i, f)) : i \in DOMAIN data.raw}
             /\ \A si \in DOMAIN option.series : \A k \in DOMAIN option.xAxis :
                  LET cell == NamedCell(data, option.xAxis[k], f, option.series[si].name)
                  IN  \/ Len(FirstKeys(data)) < 2
                      \/ exceptUnknown /\ option.series[si].name = "Unknown"
                      \/ option.series[si].data[k] =
                           IF cell = {} THEN Num(0)
                           ELSE data.rows[Least(cell)][ColumnPos(data, ExpectedMetric(data))]

\* C14: the split dimension is the first key other than t of the first raw
\* identifier, whatever the by list of the query sent; with two by keys only
\* the first splits, rows that differ only in the later key share a
\* (category, series) cell, and the cell holds the value of the first such
\* row in row order.
C14_FirstKeySplits == FirstKeySplits(FALSE)

\* the same, for the cells of every series but 'Unknown'
FirstKeySplitsNamed == FirstKeySplits(TRUE)

\* two rows of one day and one timerId that differ in machineId, answered to
\* a query without a by list
FirstKeySplitsCase ==
  /\ PivotShown /\ WellFormed(data)
  /\ payload(dataset, chart).group.by = <<>>
  /\ data.columns = <<"t", "timerId", "machineId", "events">>
  /\ Len(data.rows) = 2
  /\ data.rows[1][1] = data.rows[2][1]
  /\ data.rows[1][2] = Str("A") /\ data.rows[2][2] = Str("A")
  /\ data.rows[1][3] # data.rows[2][3]
  /\ Len(option.series) = 1
  /\ option.series[1].name = "A"
  /\ option.series[1].data = <<Num(2)>>

\* no two rows of the result share their category and their split value
DistinctCells(d) ==
  \A i, j \in DOMAIN d.rows :
    (i # j /\ RowCategory(d, i) = RowCategory(d, j)) =>
      /\ ByColumns(d) # <<>>
      /\ SplitOf(d, i, ByColumns(d)[1]) # SplitOf(d, j, ByColumns(d)[1])

\* C15: no group is lost: when the rows have pairwise distinct (t, split
\* value) pairs, the metric value of each row is the point at its category
\* of the series of its split value, the series 'Unknown' for a row whose
\* split field is null or missing.
C15_NoGroupLost ==
  (PivotShown /\ WellFormed(data) /\ KeysComplete(data) /\ DistinctCells(data)) =>
    \A i \in DOMAIN data.rows :
      \E si \in DOMAIN option.series : \E k \in DOMAIN option.xAxis :
        /\ option.series[si].name =
             IF ByColumns(data) = <<>> THEN "Series"
             ELSE SplitName(SplitOf(data, i, ByColumns(data)[1]))
        /\ option.xAxis[k] = RowCategory(data, i)
        /\ option.series[si].data[k] = data.rows[i][ColumnPos(data, ExpectedMetric(data))]

-----------------------------------------------------------------------------
(* WorkingDashboard and ComprehensiveDashboard: the effect                  *)
(* loadDashboardData.  A step of a load is the code it runs between two     *)
(* awaits.  getJSON settles with a response body or rejects.  The chart     *)
(* requests settle inside Promise.allSettled: the load meets them once, as  *)
(* the array of outcomes its await returns.                                 *)

Dashboards == {"working", "comprehensive"}

ChartPromise(endpoint, type) == [endpoint |-> endpoint, type |-> type]

WorkingCharts ==
  << ChartPromise("/simple-timerlogs/pie-chart", "stopReasonsPie"),
     ChartPromise("/simple-timerlogs/bar-chart", "locationBar"),
     ChartPromise("/simple-timerlogs/line-chart", "dailyTrend"),
     ChartPromise("/simple-dashboard/recent-activity", "recentActivity"),
     ChartPromise("/simple-dashboard/machine-status", "machineStatus") >>

ComprehensiveCharts ==
  << ChartPromise("/advanced-charts/line-charts/basic", "basicLine"),
     ChartPromise("/advanced-charts/line-charts/smoothed", "smoothedLine"),
     ChartPromise("/advanced-charts/area-charts/basic", "basicArea"),
     ChartPromise("/advanced-charts/area-charts/stacked", "stackedArea"),
     ChartPromise("/advanced-charts/scatter-charts/basic", "basicScatter"),
     ChartPromise("/advanced-charts/heatmap-charts/calendar", "calendarHeatmap"),
     ChartPromise("/advanced-charts/gauge-charts/multi", "multiGauge"),
     ChartPromise("/advanced-charts/radar-charts/performance", "performanceRadar"),
     ChartPromise("/advanced-charts/funnel-charts/conversion", "conversionFunnel"),
     ChartPromise("/advanced-charts/tree-charts/hierarchy", "treeHierarchy"),
     ChartPromise("/advanced-charts/sankey-charts/flow", "sankeyFlow"),
     ChartPromise("/simple-dashboard/overview", "overview") >>

\* the chart requests of a dashboard, in the order of the array
chartPromises(d) == IF d = "working" THEN WorkingCharts ELSE ComprehensiveCharts

HealthEndpoint == "/health"

OverviewEndpoint == "/simple-dashboard/overview"

\* what a rejected request throws: an Error with a message, or another value
Reasons ==
  {[isError |-> TRUE, message |-> "Failed to fetch"],
   [isError |-> FALSE, message |-> ""]}

HealthError == [isError |-> TRUE, message |-> "API health check failed"]

\* err instanceof Error ? err.message : 'Unknown error occurred'
ErrorMessage(r) == IF r.isError THEN Str(r.message) ELSE Str("Unknown error occurred")

\* an entry of the log: a request sent, a response met, a state update
Event(l, op, arg) == [load |-> l, op |-> op, arg |-> arg]

\* the log of a run whose history is not kept
NoLog == <<Event(0, "off", "")>>

\* the log after the events: a log that is not kept stays as it is
Logged(events) == IF log = NoLog THEN log ELSE log \o events

\* a load that goes on whatever the health check answers
HealthPasses_Unchecked(d, ok) == TRUE

\* if (!healthCheck.ok) throw ...: WorkingDashboard checks the answer,
\* ComprehensiveDashboard logs it and goes on
HealthPasses(d, ok) == d = "comprehensive" \/ ok

\* the status of one entry of chartResults
Statuses == {"fulfilled", "rejected"}

\* an await that returns at the first settled chart request: the other
\* entries are still pending
allSettled_Race(promises) ==
  {[i \in DOMAIN promises |-> IF i = j THEN s ELSE "pending"]
     : j \in DOMAIN promises, s \in Statuses}

\* await Promise.allSettled(promises): the arrays of outcomes it can return,
\* one entry per promise in the order of the promises, every entry
\* fulfilled or rejected
allSettled(promises) == [DOMAIN promises -> Statuses]

\* newCharts that holds an entry for every request, rejected or not
newCharts_Every(d, l, results) ==
  {[key |-> chartPromises(d)[i].type,
    value |-> ResponseBody(chartPromises(d)[i].endpoint, l)] : i \in DOMAIN results}

\* chartResults.forEach: one entry per fulfilled result, its type and data
newCharts(d, l, results) ==
  {[key |-> chartPromises(d)[i].type,
    value |-> ResponseBody(chartPromises(d)[i].endpoint, l)]
     : i \in {j \in DOMAIN results : results[j] = "fulfilled"}}

\* the effect starts: try { setLoading(true); setError(null); await /health
StartLoad(l) ==
  /\ dashboard \in Dashboards
  /\ load[l].pc = "idle"
  /\ loading' = TRUE
  /\ error' = Null
  /\ load' = [load EXCEPT ![l].pc = "health"]
  /\ log' = Logged(<< Event(l, "setLoading", "true"),
                      Event(l, "setError", "null"),
                      Event(l, "request", HealthEndpoint) >>)
  /\ UNCHANGED <<dashboard, dashboardData, charts, galleryVars, advancedVars, homeVars>>

\* a catch block without the finally block: loading is left as it is
Catch_NoFinally(l, ld, reason, seen) ==
  /\ error' = ErrorMessage(reason)
  /\ load' = [load EXCEPT ![l] = [ld EXCEPT !.pc = "done"]]
  /\ log' = Logged(seen \o <<Event(l, "setError", "message")>>)
  /\ UNCHANGED <<dashboard, dashboardData, charts, loading, galleryVars, advancedVars, homeVars>>

\* catch (err) { setError(...) } finally { setLoading(false) }, after the
\* events seen; ld is the load's record at the throw
Catch(l, ld, reason, seen) ==
  /\ error' = ErrorMessage(reason)
  /\ loading' = FALSE
  /\ load' = [load EXCEPT ![l] = [ld EXCEPT !.pc = "done"]]
  /\ log' = Logged(seen \o << Event(l, "setError", "message"),
                              Event(l, "setLoading", "false") >>)
  /\ UNCHANGED <<dashboard, dashboardData, charts, galleryVars, advancedVars, homeVars>>

\* GET /health resolves with {ok}
HealthResolves(l) ==
  /\ load[l].pc = "health"
  /\ \E ok \in BOOLEAN :
       LET ld == [load[l] EXCEPT !.healthCheck = IF ok THEN "ok" ELSE "notOk"]
       IN  IF HealthPasses(dashboard, ok)
           THEN /\ load' = [load EXCEPT ![l] = [ld EXCEPT !.pc = "overview"]]
                /\ log' = Logged(<< Event(l, "resolved", HealthEndpoint),
                                    Event(l, "request", OverviewEndpoint) >>)
                /\ UNCHANGED <<dashboard, dashboardData, charts, loading, error,
                               galleryVars, advancedVars, homeVars>>
           ELSE Catch(l, ld, HealthError, <<Event(l, "resolved", HealthEndpoint)>>)

\* GET /health rejects
HealthRejects(l) ==
  /\ load[l].pc = "health"
  /\ \E r \in Reasons :
       Catch(l, load[l], r, <<Event(l, "rejected", HealthEndpoint)>>)

\* GET /simple-dashboard/overview resolves: setDashboardData(overview), then
\* every chart request is sent
OverviewResolves(l) ==
  /\ load[l].pc = "overview"
  /\ dashboardData' = ResponseBody(OverviewEndpoint, l)
  /\ load' = [load EXCEPT ![l].pc = "charts"]
  /\ log' = Logged(<< Event(l, "resolved", OverviewEndpoint),
                      Event(l, "setDashboardData", OverviewEndpoint) >>
                \o [i \in DOMAIN chartPromises(dashboard) |->
                      Event(l, "request", chartPromises(dashboard)[i].endpoint)])
  /\ UNCHANGED <<dashboard, charts, loading, error, galleryVars, advancedVars, homeVars>>

\* GET /simple-dashboard/overview rejects
OverviewRejects(l) ==
  /\ load[l].pc = "overview"
  /\ \E r \in Reasons :
       Catch(l, load[l], r, <<Event(l, "rejected", OverviewEndpoint)>>)

\* the entries of chartResults as the load met them: the status and the
\* type of each chart request, in the order of the array
Settled(l, results) ==
  [i \in DOMAIN results |-> Event(l, results[i], chartPromises(dashboard)[i].type)]

\* chartResults.forEach(...); setCharts(newCharts); finally
\* { setLoading(false) }
StoreCharts(l, results) ==
  /\ charts' = newCharts(dashboard, l, results)
  /\ loading' = FALSE
  /\ load' = [load EXCEPT ![l].pc = "done"]
  /\ log' = Logged(Settled(l, results)
                     \o << Event(l, "setCharts", "newCharts"),
                           Event(l, "setLoading", "false") >>)
  /\ UNCHANGED <<dashboard, dashboardData, error, galleryVars, advancedVars, homeVars>>

\* an await of Promise.all: a rejected chart request lands in the catch
\* block
SetCharts_PromiseAll(l) ==
  /\ load[l].pc = "charts"
  /\ \E results \in allSettled(chartPromises(dashboard)) :
       IF \E i \in DOMAIN results : results[i] = "rejected"
       THEN \E r \in Reasons : Catch(l, load[l], r, Settled(l, results))
       ELSE StoreCharts(l, results)

\* await Promise.allSettled(chartPromises) returns chartResults
SetCharts(l) ==
  /\ load[l].pc = "charts"
  /\ \E results \in allSettled(chartPromises(dashboard)) : StoreCharts(l, results)

\* one of the two dashboards, mounted, its effect not yet run
DashboardInit ==
  /\ GalleryState
  /\ dashboard \in Dashboards
  /\ DashboardState
  /\ AdvancedUnmounted
  /\ HomeUnmounted
  /\ log = <<>>

\* the load of a component whose effect runs once
DashboardNext ==
  \/ StartLoad(1)
  \/ HealthResolves(1)
  \/ HealthRejects(1)
  \/ OverviewResolves(1)
  \/ OverviewRejects(1)
  \/ SetCharts(1)

DashboardSpec == DashboardInit /\ [][DashboardNext]_vars

-----------------------------------------------------------------------------
(* Properties of a dashboard load, stated on the log of load 1.             *)

\* the positions of the log where load l did op with arg
EventsAt(l, op, arg) ==
  {j \in DOMAIN log : log[j].load = l /\ log[j].op = op /\ log[j].arg = arg}

\* the positions of the log where load l did op
AtOp(l, op) == {j \in DOMAIN log : log[j].load = l /\ log[j].op = op}

\* the endpoints load l requested, in order
Requested(l) ==
  LET rs == SelectSeq(log, LAMBDA e : e.load = l /\ e.op = "request")
  IN  [j \in DOMAIN rs |-> rs[j].arg]

\* position j of the log holds the k-th request of load l
RequestRank(l, j) == Cardinality({i \in AtOp(l, "request") : i <= j})

\* the endpoints of the chart requests, in the order of the array
ChartEndpoints ==
  [i \in DOMAIN chartPromises(dashboard) |-> chartPromises(dashboard)[i].endpoint]

\* the chart requests load l sent: its requests after the health and the
\* overview request
ChartRequests(l) == {j \in AtOp(l, "request") : RequestRank(l, j) >= 3}

\* the chart requests of load l that its await returned with status s
ChartsWith(l, s) ==
  {i \in DOMAIN chartPromises(dashboard) : EventsAt(l, s, chartPromises(dashboard)[i].type) # {}}

\* the health request of load l resolved with ok = false or rejected
HealthFailed(l) ==
  load[l].healthCheck = "notOk" \/ EventsAt(l, "rejected", HealthEndpoint) # {}

\* C16: on the working dashboard, when the health request resolves with
\* ok = false or rejects, the load sets error ('API health check failed' for
\* ok = false), sends no overview request and no chart request, leaves
\* dashboardData null and charts empty, and ends with loading = false.
C16_HealthGate ==
  (dashboard = "working" /\ HealthFailed(1)) =>
    /\ load[1].pc = "done"
    /\ error # Null
    /\ load[1].healthCheck = "notOk" => error = Str("API health check failed")
    /\ Requested(1) = <<HealthEndpoint>>
    /\ dashboardData = NullBody
    /\ charts = {}
    /\ loading = FALSE

\* the working dashboard after a health check that answered ok = false
C16_Witness ==
  /\ dashboard = "working"
  /\ load[1].healthCheck = "notOk"
  /\ load[1].pc = "done"
  /\ error = Str("API health check failed")

\* C17: on the comprehensive dashboard the overview request and the chart
\* requests are sent only after the health check succeeded with ok = true; a
\* health check that does not report ok leads to the error state and to no
\* data request.
C17_HealthFirst ==
  dashboard = "comprehensive" =>
    /\ Len(Requested(1)) > 1 => load[1].healthCheck = "ok"
    /\ HealthFailed(1) => error # Null /\ Requested(1) = <<HealthEndpoint>>

\* C18: the overview request is sent only after the health request resolved;
\* the chart requests are sent only after the overview request resolved and
\* dashboardData was set; the charts state is written at most once, after
\* every chart request settled and before loading becomes false, and exactly
\* once by a load that sent its chart requests and finished.
C18_PhaseOrder ==
  /\ \A j \in AtOp(1, "request") :
       /\ RequestRank(1, j) = 1 => log[j].arg = HealthEndpoint
       /\ RequestRank(1, j) = 2 =>
            /\ log[j].arg = OverviewEndpoint
            /\ \E i \in EventsAt(1, "resolved", HealthEndpoint) : i < j
  /\ \A j \in ChartRequests(1) :
       /\ \E i \in EventsAt(1, "resolved", OverviewEndpoint) : i < j
       /\ \E i \in AtOp(1, "setDashboardData") : i < j
       /\ dashboardData # NullBody
  /\ ChartRequests(1) # {} => SubSeq(Requested(1), 3, Len(Requested(1))) = ChartEndpoints
  /\ Cardinality(AtOp(1, "setCharts")) <= 1
  /\ \A j \in AtOp(1, "setCharts") :
       /\ \A i \in DOMAIN chartPromises(dashboard) :
            \E s \in Statuses :
              \E k \in EventsAt(1, s, chartPromises(dashboard)[i].type) : k < j
       /\ \A k \in ChartRequests(1) : k < j
       /\ \A i \in EventsAt(1, "setLoading", "false") : j < i
  /\ (load[1].pc = "done" /\ ChartRequests(1) # {}) =>
       /\ Cardinality(AtOp(1, "setCharts")) = 1
       /\ EventsAt(1, "setLoading", "false") # {}
  /\ (loading = FALSE /\ ChartRequests(1) # {}) => AtOp(1, "setCharts") # {}

\* a finished comprehensive load: twelve chart requests, the last of them
\* to the overview endpoint again, and the charts written
C18_Witness ==
  /\ load[1].pc = "done"
  /\ AtOp(1, "setCharts") # {}
  /\ Cardinality(ChartRequests(1)) = 12
  /\ Cardinality(EventsAt(1, "request", OverviewEndpoint)) = 2
  /\ ChartsWith(1, "rejected") # {}

\* C19: whatever chart requests reject, the charts state holds exactly the
\* keys of the fulfilled requests, each with the response of its own
\* request, error stays null, and the dashboard leaves the loading state.
C19_ChartIsolation ==
  (load[1].pc = "done" /\ ChartRequests(1) # {}) =>
    /\ \A i \in DOMAIN chartPromises(dashboard) :
         LET mine == {c \in charts : c.key = chartPromises(dashboard)[i].type}
         IN  IF i \in ChartsWith(1, "fulfilled")
             THEN mine = {[key |-> chartPromises(dashboard)[i].type,
                           value |-> [endpoint |-> chartPromises(dashboard)[i].endpoint,
                                      load |-> 1]]}
             ELSE i \in ChartsWith(1, "rejected") /\ mine = {}
    /\ \A c \in charts : \E i \in DOMAIN chartPromises(dashboard) :
         c.key = chartPromises(dashboard)[i].type
    /\ error = Null
    /\ loading = FALSE

\* a finished load whose first chart request rejected and whose second was
\* fulfilled
C19_Witness ==
  /\ load[1].pc = "done"
  /\ 1 \in ChartsWith(1, "rejected")
  /\ 2 \in ChartsWith(1, "fulfilled")
  /\ Cardinality(charts) = Len(chartPromises(dashboard)) - 1

-----------------------------------------------------------------------------
(* AdvancedChartsPage: the effect loadChartData.                            *)

ChartEntry(key, endpoint) == [key |-> key, endpoint |-> endpoint]

\* const charts = [...]: the charts of the page in declared order
AdvancedCharts ==
  << ChartEntry("basicLine", "/advanced-charts/line-charts/basic"),
     ChartEntry("smoothedLine", "/advanced-charts/line-charts/smoothed"),
     ChartEntry("basicArea", "/advanced-charts/area-charts/basic"),
     ChartEntry("stackedArea", "/advanced-charts/area-charts/stacked"),
     ChartEntry("basicScatter", "/advanced-charts/scatter-charts/basic"),
     ChartEntry("calendarHeatmap", "/advanced-charts/heatmap-charts/calendar"),
     ChartEntry("multiGauge", "/advanced-charts/gauge-charts/multi"),
     ChartEntry("performanceRadar", "/advanced-charts/radar-charts/performance"),
     ChartEntry("conversionFunnel", "/advanced-charts/funnel-charts/conversion"),
     ChartEntry("treeHierarchy", "/advanced-charts/tree-charts/hierarchy"),
     ChartEntry("sankeyFlow", "/advanced-charts/sankey-charts/flow") >>

\* an update that drops the entries of the other keys
Put_OnlyKey(obj, key, value) == {[key |-> key, value |-> value]}

\* {...prev, [key]: value}: an object as the set of its entries
Put(obj, key, value) ==
  {e \in obj : e.key # key} \cup {[key |-> key, value |-> value]}

\* charts.reduce(...): every key true
initialLoading == {[key |-> AdvancedCharts[k].key, value |-> TRUE] : k \in DOMAIN AdvancedCharts}

\* a loop that goes on with the chart after the next
NextChart_Skip(k) == k + 2

\* for (const chart of charts): the chart after chart k
NextChart(k) == k + 1

\* the effect starts: setLoading(initialLoading), then the first request
StartCharts ==
  /\ chartLoad.pc = "idle"
  /\ chartLoading' = initialLoading
  /\ chartLoad' = [pc |-> "waiting", index |-> 1]
  /\ log' = Logged(<< Event(1, "setLoading", "initialLoading"),
                      Event(1, "request", AdvancedCharts[1].endpoint) >>)
  /\ UNCHANGED <<chartData, galleryVars, dashboardVars, homeVars>>

\* the request of chart k settled with value (null when it rejected): the
\* state updates of the iteration, then the next iteration's request
ChartLoaded(op, value) ==
  LET k == chartLoad.index
      c == AdvancedCharts[k]
      n == NextChart(k)
  IN  /\ chartLoad.pc = "waiting"
      /\ chartData' = Put(chartData, c.key, value)
      /\ chartLoading' = Put(chartLoading, c.key, FALSE)
      /\ chartLoad' = IF n <= Len(AdvancedCharts)
                      THEN [pc |-> "waiting", index |-> n]
                      ELSE [pc |-> "done", index |-> k]
      /\ log' = Logged(<< Event(1, op, c.endpoint),
                          Event(1, "setChartData", c.key),
                          Event(1, "setLoading", c.key) >>
                    \o (IF n <= Len(AdvancedCharts)
                        THEN <<Event(1, "request", AdvancedCharts[n].endpoint)>>
                        ELSE <<>>))
      /\ UNCHANGED <<galleryVars, dashboardVars, homeVars>>

\* try: data = await getJSON(chart.endpoint); setChartData({...prev, [key]: data})
ChartDataResolves ==
  ChartLoaded("resolved", ResponseBody(AdvancedCharts[chartLoad.index].endpoint, 1))

\* catch: setChartData({...prev, [key]: null})
ChartDataRejects == ChartLoaded("rejected", NullBody)

AdvancedInit ==
  /\ GalleryState
  /\ DashboardUnmounted
  /\ AdvancedState
  /\ chartLoad = [pc |-> "idle", index |-> 0]
  /\ HomeUnmounted
  /\ log = <<>>

AdvancedNext == StartCharts \/ ChartDataResolves \/ ChartDataRejects

AdvancedSpec == AdvancedInit /\ [][AdvancedNext]_vars

\* the position of the first entry of the log that equals e, 0 when none
FirstAt(e) ==
  IF \E j \in DOMAIN log : log[j] = e
  THEN CHOOSE j \in DOMAIN log : log[j] = e /\ \A i \in 1..(j - 1) : log[i] # e
  ELSE 0

\* C20: the advanced charts page loads strictly sequentially: every key is
\* marked loading before the first request; the endpoints are requested in
\* the declared order, each at most once and all eleven by a finished load;
\* at most one request is in flight; the request of chart k+1 comes after
\* the request of chart k settled and its two state updates were issued.
C20_SequentialLoad ==
  LET reqs == Requested(1)
      settled == {j \in DOMAIN log : log[j].op \in {"resolved", "rejected"}}
  IN  /\ Len(AdvancedCharts) = 11
      /\ log # <<>> =>
           /\ log[1] = Event(1, "setLoading", "initialLoading")
           /\ {e.key : e \in chartLoading} = {AdvancedCharts[k].key : k \in DOMAIN AdvancedCharts}
      /\ Len(reqs) <= Len(AdvancedCharts)
      /\ \A j \in DOMAIN reqs : reqs[j] = AdvancedCharts[j].endpoint
      /\ chartLoad.pc = "done" => Len(reqs) = Len(AdvancedCharts)
      /\ Len(reqs) - Cardinality(settled) \in {0, 1}
      /\ \A k \in 1..(Len(reqs) - 1) :
           LET c == AdvancedCharts[k]
               sent == FirstAt(Event(1, "request", c.endpoint))
               done == EventsAt(1, "resolved", c.endpoint) \cup EventsAt(1, "rejected", c.endpoint)
               next == FirstAt(Event(1, "request", AdvancedCharts[k + 1].endpoint))
           IN  \E s \in done :
                 /\ sent < s
                 /\ log[s + 1] = Event(1, "setChartData", c.key)
                 /\ log[s + 2] = Event(1, "setLoading", c.key)
                 /\ s + 2 < next

\* a finished load with a failed and a loaded chart
C20_Witness ==
  /\ chartLoad.pc = "done"
  /\ Len(Requested(1)) = 11
  /\ [key |-> "basicLine", value |-> NullBody] \in chartData
  /\ [key |-> "sankeyFlow", value |-> ResponseBody("/advanced-charts/sankey-charts/flow", 1)] \in chartData

-----------------------------------------------------------------------------
(* AdvancedChartsPage under fair scheduling: the effect runs once the page  *)
(* is mounted, and every request sent settles.                              *)

AdvancedFairSpec ==
  /\ AdvancedSpec
  /\ WF_vars(StartCharts)
  /\ WF_vars(ChartDataResolves \/ ChartDataRejects)

\* the entries of chart k in chartData and in chartLoading
DataOf(k) == {e \in chartData : e.key = AdvancedCharts[k].key}

LoadingOf(k) == {e \in chartLoading : e.key = AdvancedCharts[k].key}

\* chart k is stored as its request settled: null and not loading after a
\* rejection, the response and not loading after a success, nothing stored
\* before; the chart after a settled one was requested
StoredAsSettled(k) ==
  LET c == AdvancedCharts[k]
      requestedNext ==
        k < Len(AdvancedCharts) =>
          EventsAt(1, "request", AdvancedCharts[k + 1].endpoint) # {}
  IN  IF EventsAt(1, "rejected", c.endpoint) # {}
      THEN /\ DataOf(k) = {[key |-> c.key, value |-> NullBody]}
           /\ LoadingOf(k) = {[key |-> c.key, value |-> FALSE]}
           /\ requestedNext
      ELSE IF EventsAt(1, "resolved", c.endpoint) # {}
      THEN /\ DataOf(k) = {[key |-> c.key, value |-> [endpoint |-> c.endpoint, load |-> 1]]}
           /\ LoadingOf(k) = {[key |-> c.key, value |-> FALSE]}
           /\ requestedNext
      ELSE DataOf(k) = {}

\* every chart is stored and none is loading
AllLoaded ==
  \A k \in DOMAIN AdvancedCharts :
    /\ DataOf(k) # {}
    /\ LoadingOf(k) = {[key |-> AdvancedCharts[k].key, value |-> FALSE]}

\* C21: the advanced charts page isolates failures per chart: a chart whose
\* request failed holds null and is not loading, a chart whose request
\* succeeded holds its response, the charts after it are still requested, a
\* step never changes the data stored for another chart, and when every
\* request settles every chart ends stored and not loading.
C21_FailureIsolation ==
  /\ [](\A k \in DOMAIN AdvancedCharts : StoredAsSettled(k))
  /\ [][\A e \in chartData : e \in chartData']_vars
  /\ <>[]AllLoaded

\* a finished load whose second request failed and whose others succeeded
C21_Witness ==
  /\ chartLoad.pc = "done"
  /\ EventsAt(1, "rejected", AdvancedCharts[2].endpoint) # {}
  /\ \A k \in DOMAIN AdvancedCharts \ {2} :
       EventsAt(1, "resolved", AdvancedCharts[k].endpoint) # {}
  /\ AllLoaded

-----------------------------------------------------------------------------
(* The specialized views of the Gallery.                                    *)

\* the items of a response, none when the field is absent
ItemsOf(r) == IF r.hasItems THEN r.items ELSE <<>>

\* a sequence of numbers that never rises
Descending(s) == \A i, j \in DOMAIN s : i < j => s[i].n >= s[j].n

\* C22: the pareto chart keeps the response order: its category list and its
\* value list are as long as items, position i of each is the stopReason and
\* the count of item i, so items sorted descending by count are plotted in
\* the same descending sequence, none re-sorted, dropped or repeated.
C22_ParetoOrder ==
  option.kind = "pareto" =>
    LET its == ItemsOf(pareto)
        vals == option.series[1].data
    IN  /\ Len(option.series) = 1
        /\ Len(option.yAxis) = Len(its)
        /\ Len(vals) = Len(its)
        /\ \A i \in DOMAIN its :
             /\ option.yAxis[i] = its[i].stopReason
             /\ vals[i] = its[i].count
        /\ Descending([i \in DOMAIN its |-> its[i].count]) => Descending(vals)

\* a pareto response of two items with different counts, plotted
C22_Witness ==
  /\ option.kind = "pareto"
  /\ Len(ItemsOf(pareto)) >= 2
  /\ pareto.items[1].count.n > pareto.items[2].count.n
  /\ pareto.items[1].stopReason # pareto.items[2].stopReason
  /\ option.series[1].data = <<pareto.items[1].count, pareto.items[2].count>>

\* the calendar year a day of the model lies in
YearOf(day) == IF day = Str("2024-12-31") THEN "2024" ELSE "2025"

\* C26: the calendar heatmap shows every returned day: each item's day lies
\* inside the calendar range of the option, also when the items span more
\* than one year, and the heatmap data is one [day, count] point per item,
\* in order.
C26_CalendarRange ==
  option.kind = "calendar" =>
    LET its == ItemsOf(heat)
    IN  /\ \A i \in DOMAIN its : YearOf(its[i].day) = option.range
        /\ option.series[1].data = [i \in DOMAIN its |-> <<its[i].day, its[i].count>>]

-----------------------------------------------------------------------------
(* A dashboard load under fair scheduling: the effect runs once the         *)
(* component is mounted, every request sent settles, and the code after an  *)
(* await runs once what it awaits has settled.                              *)

DashboardFairSpec ==
  /\ DashboardSpec
  /\ WF_vars(StartLoad(1))
  /\ WF_vars(HealthResolves(1) \/ HealthRejects(1))
  /\ WF_vars(OverviewResolves(1) \/ OverviewRejects(1))
  /\ WF_vars(SetCharts(1))

\* C23: every dashboard load terminates: when each request sent settles,
\* loading becomes false and stays false, whether the health check, the
\* overview request or a chart request succeeds or fails; a finished load
\* has loading = false.
C23_LoadTerminates ==
  /\ [](load[1].pc = "done" => loading = FALSE)
  /\ <>[](loading = FALSE /\ load[1].pc = "done")

\* a load that ended at a rejected overview request
C23_Witness ==
  /\ load[1].pc = "done"
  /\ loading = FALSE
  /\ load[1].healthCheck = "ok"
  /\ EventsAt(1, "rejected", OverviewEndpoint) # {}

\* C24: within one load, error and loaded data exclude each other: error is
\* non-null only if dashboardData is null and charts is empty, and once the
\* overview is stored no later step of the load sets error.
C24_ErrorOrData ==
  /\ [](error # Null => dashboardData = NullBody /\ charts = {})
  /\ [][dashboardData # NullBody => error' = Null]_vars

\* a finished load that stored the overview and its charts although a chart
\* request was rejected
C24_Witness ==
  /\ load[1].pc = "done"
  /\ dashboardData # NullBody
  /\ charts # {}
  /\ error = Null
  /\ ChartsWith(1, "rejected") # {}

-----------------------------------------------------------------------------
(* A dashboard under React strict mode: the effect of the mounted           *)
(* component runs twice, both runs start in the commit of the first render  *)
(* and neither is cancelled, so two loads write the same state.  The        *)
(* history of the two loads is not kept.                                    *)

StrictInit ==
  /\ GalleryState
  /\ dashboard \in Dashboards
  /\ DashboardState
  /\ AdvancedUnmounted
  /\ HomeUnmounted
  /\ log = NoLog

\* both runs of the effect have started
BothStarted == \A l \in Loads : load[l].pc # "idle"

StrictNext ==
  \/ StartLoad(1)
  \/ load[1].pc # "idle" /\ StartLoad(2)
  \/ BothStarted /\ \E l \in Loads : HealthResolves(l)
  \/ BothStarted /\ \E l \in Loads : HealthRejects(l)
  \/ BothStarted /\ \E l \in Loads : OverviewResolves(l)
  \/ BothStarted /\ \E l \in Loads : OverviewRejects(l)
  \/ BothStarted /\ \E l \in Loads : SetCharts(l)

StrictSpec == StrictInit /\ [][StrictNext]_vars

\* WorkingDashboard is the mounted component
WorkingStrictInit == StrictInit /\ dashboard = "working"

WorkingStrictSpec == WorkingStrictInit /\ [][StrictNext]_vars

\* a load is in flight from its first request to its last state update
InFlight(l) == load[l].pc \in {"health", "overview", "charts"}

\* C25: overlapping loads keep the dashboard state consistent: after both
\* loads have finished error is non-null only if dashboardData is null, and
\* loading is false only when no load is in flight.
C25_OverlapConsistent ==
  /\ (\A l \in Loads : load[l].pc = "done") => (error # Null => dashboardData = NullBody)
  /\ loading = FALSE => \A l \in Loads : ~InFlight(l)

-----------------------------------------------------------------------------
(* Home: the location filter.  Each chart data request is a useSWR key      *)
(* [path, query].  A key that changes is requested anew: it shows the       *)
(* response SWR kept for it when the key was met before, and no data        *)
(* otherwise.  A key that has data is asked again when SWR revalidates it.  *)

\* the locations GET /v1/refs/basic may list
LocationLists == {<<>>, <<"loc-a">>, <<"loc-a", "loc-b">>}

NoParams == [has |-> FALSE, location_id |-> ""]

\* locationId ? { location_id: locationId } : {}
params(loc) == IF loc # "" THEN [has |-> TRUE, location_id |-> loc] ELSE NoParams

\* the key of request i: the cycle times are asked with {}, the others with
\* params
HomeKey(i, loc) ==
  [path |-> HomePaths[i],
   params |-> IF HomePaths[i] = "/v1/cycle-times" THEN NoParams ELSE params(loc)]

\* the values of the location select: All and the listed locations
locOptions == {""} \cup {refs.locations[j] : j \in DOMAIN refs.locations}

\* the response of the request with key k
HomeResponse(k) == [defined |-> TRUE, path |-> k.path, params |-> k.params]

\* GET /v1/refs/basic answers, the first time or on a revalidation
ReceiveRefs ==
  /\ \E ls \in LocationLists : refs' = [defined |-> TRUE, locations |-> ls]
  /\ UNCHANGED <<locationId, homeData, galleryVars, dashboardVars, advancedVars, log>>

\* the select changes: setLocationId(e.target.value); cached[i] tells
\* whether SWR holds a response for the new key of request i
SetLocationId ==
  /\ \E id \in locOptions \ {locationId} : \E cached \in [HomeRequests -> BOOLEAN] :
       /\ locationId' = id
       /\ homeData' = [i \in HomeRequests |->
                         IF HomeKey(i, id) = HomeKey(i, locationId) THEN homeData[i]
                         ELSE IF cached[i] THEN HomeResponse(HomeKey(i, id))
                         ELSE NoResponse]
  /\ UNCHANGED <<refs, galleryVars, dashboardVars, advancedVars, log>>

\* the response of chart data request i arrives, the first time or on a
\* revalidation
ReceiveChartData ==
  /\ \E i \in HomeRequests :
       homeData' = [homeData EXCEPT ![i] = HomeResponse(HomeKey(i, locationId))]
  /\ UNCHANGED <<locationId, refs, galleryVars, dashboardVars, advancedVars, log>>

HomeInit ==
  /\ GalleryState
  /\ DashboardUnmounted
  /\ AdvancedUnmounted
  /\ HomeState
  /\ log = <<>>

HomeNext == ReceiveRefs \/ SetLocationId \/ ReceiveChartData

HomeSpec == HomeInit /\ [][HomeNext]_vars

\* C27: when a location is selected each of the five chart data requests
\* carries location_id equal to the selected id, when 'All' is selected none
\* carries location_id, and the data a chart holds answers the request of
\* the current selection.
C27_LocationFilter ==
  \A i \in HomeRequests :
    LET q == HomeKey(i, locationId).params
    IN  /\ locationId # "" => q.has /\ q.location_id = locationId
        /\ locationId = "" => ~q.has
        /\ homeData[i].defined => homeData[i].params = q

====
